---- MODULE Spec2Model ----
(***************************************************************************)
(* graphviz3d: src/src/main.rs.  The program reads a parsed DOT graph,     *)
(* builds the node table and the edge list, derives a colour and a label   *)
(* per node, and then relaxes random points in MAX_DIMS dimensions while   *)
(* the number of active dimensions goes from MAX_DIMS - 1 down to 3,       *)
(* sending one frame to the viewer after every outer iteration.            *)
(*                                                                         *)
(* f32 values are modelled in fixed point: the integer v stands for the    *)
(* real v / Unit.  Text is a sequence of one-character strings.            *)
(* Option<T> is a sequence of length 0 (None) or 1 (Some).                 *)
(***************************************************************************)
EXTENDS Integers, Sequences, FiniteSets, TLC

VARIABLES
    statements,     \* the parsed graph's statement list (input)
    rng,            \* the values thread_rng() will hand out (input)
    pc,             \* position in main
    nodes,          \* HashMap<String, Node>, as its iteration order
    node_indices,   \* HashMap<String, usize>
    num_points,
    edges_indices,  \* Vec<(usize, usize)>
    color_map,      \* HashMap<String, ColorRGBA> of the attribute pass
    colors,         \* Vec<ColorRGBA>
    labels,         \* Vec<Label>
    points,         \* Vec<[f32; MAX_DIMS]>
    dims,           \* the loop variable of the dimension loop
    outer,          \* outer iterations completed in this phase
    inner,          \* inner iterations completed in this outer iteration
    outcome,        \* how main ended: "running", "ok", "panic:...", "err:..."
    sent,           \* messages handed to the session by the last frame emission
    hist            \* history of the run (observation only)

vars == <<statements, rng, pc, nodes, node_indices, num_points, edges_indices,
          color_map, colors, labels, points, dims, outer, inner, outcome,
          sent, hist>>

----------------------------------------------------------------------------
(* Bounds of the model *)

\* fixed-point resolution: 1.0 is Unit
Unit == 1000
\* the point seeds lie in 0..MaxSeed
MaxSeed == 2
\* enumerated label texts have at most this many characters
MaxLabelLen == 3
\* the sink may fail while fewer than MaxSinkFail frames have been sent
MaxSinkFail == 2
\* a node of the attribute graphs carries at most this many shape attributes
MaxShapeAttrs == 2

(* Constants of the program *)

MAX_DIMS == 10
MIN_DIMS == 3
OUTER_ITERS == 10
INNER_ITERS == 10

edge_strength == Unit \div 10
edge_length == Unit
node_repelling_strength == Unit \div 10
node_repelling_distance == 2 * Unit
float_strength == (2 * Unit) \div 100
float_distance == 2 * Unit
\* the 0.001 of length.max(0.001)
Epsilon == Unit \div 1000
\* the clamp ranges of the arrow colours
COMPRESS_RANGE == Unit \div 2
STRETCH_RANGE == 5 * Unit

----------------------------------------------------------------------------
(* f32 arithmetic in fixed point *)

Min(a, b) == IF a < b THEN a ELSE b
Max(a, b) == IF a > b THEN a ELSE b

\* a / b rounded toward zero, for b >= 0.  A zero divisor gives f32 an infinity
\* (or NaN for 0 / 0), modelled by a value beyond every coordinate
FDiv(a, b) ==
    IF b = 0 THEN (IF a < 0 THEN -1000000 * Unit ELSE 1000000 * Unit)
    ELSE IF a >= 0 THEN a \div b ELSE -((-a) \div b)

\* product of two fixed-point values
FMul(a, b) == FDiv(a * b, Unit)

RECURSIVE SqrtSearch(_, _, _)
SqrtSearch(n, lo, hi) ==
    IF lo >= hi THEN lo
    ELSE LET mid == (lo + hi + 1) \div 2
         IN  IF mid * mid <= n THEN SqrtSearch(n, mid, hi)
             ELSE SqrtSearch(n, lo, mid - 1)

\* f32::sqrt: the largest r with r * r <= n
Sqrt(n) == SqrtSearch(n, 0, 46340)

Dims(d) == 0 .. (d - 1)

RECURSIVE SumSquares(_, _, _)
SumSquares(p1, p2, k) ==
    IF k = 0 THEN 0
    ELSE SumSquares(p1, p2, k - 1) + (p2[k - 1] - p1[k - 1]) * (p2[k - 1] - p1[k - 1])

\* points_distance(points, i, j, dims)
points_distance(pts, i, j, d) == Sqrt(SumSquares(pts[i], pts[j], d))

----------------------------------------------------------------------------
(* Text, identifiers and the statements of the parsed graph *)

Some(x) == <<x>>
None == <<>>

Id(kind, v) == [kind |-> kind, v |-> v]
Port(pid, dir) == [pid |-> pid, dir |-> dir]
NodeId(id, port) == [id |-> id, port |-> port]
Attribute(name, value) == [name |-> name, value |-> value]
Node(id, attributes) == [id |-> id, attributes |-> attributes]
VertexN(node_id) == [kind |-> "N", id |-> Some(node_id)]
VertexS == [kind |-> "S", id |-> None]
NodeStmt(n) == [kind |-> "Node", node |-> Some(n), ty |-> "", vertices |-> <<>>]
EdgePair(a, b) == [kind |-> "Edge", node |-> None, ty |-> "Pair", vertices |-> <<a, b>>]
EdgeChain(chain) == [kind |-> "Edge", node |-> None, ty |-> "Chain", vertices |-> chain]
OtherStmt == [kind |-> "Other", node |-> None, ty |-> "", vertices |-> <<>>]

\* Id's Display (to_string): the text the identifier holds
IdText(id) == id.v

id_to_string(id) ==
    CASE id.kind = "Html" -> <<"html", " ">> \o id.v
      [] id.kind = "Escaped" -> <<"esc", " ">> \o id.v
      [] id.kind = "Plain" -> <<"plain", " ">> \o id.v
      [] id.kind = "Anonymous" -> <<"anon", " ">> \o id.v

port_to_string(port) ==
    CASE port.pid = None /\ port.dir = None -> <<>>
      [] port.pid # None /\ port.dir = None -> id_to_string(port.pid[1])
      [] port.pid = None /\ port.dir # None -> <<":">> \o port.dir[1]
      [] port.pid # None /\ port.dir # None ->
             id_to_string(port.pid[1]) \o <<":">> \o port.dir[1]

node_id_to_string(node_id) ==
    IF node_id.port = None THEN id_to_string(node_id.id)
    ELSE id_to_string(node_id.id) \o <<":">> \o port_to_string(node_id.port[1])

----------------------------------------------------------------------------
(* Ingestion: the node table and the edge list *)

NodeStmtIndices(stmts) == {p \in 1 .. Len(stmts) : stmts[p].kind = "Node"}

NodeKeys(stmts) == {node_id_to_string(stmts[p].node[1].id) : p \in NodeStmtIndices(stmts)}

\* collect() into the HashMap: a later declaration of a key replaces an earlier one
NodeOfKey(stmts, key) ==
    LET P == {p \in NodeStmtIndices(stmts) : node_id_to_string(stmts[p].node[1].id) = key}
    IN  stmts[CHOOSE p \in P : \A q \in P : q <= p].node[1]

\* the orders in which a HashMap may iterate over its keys
IterationOrders(keys) ==
    {o \in [1 .. Cardinality(keys) -> keys] : \A p, q \in DOMAIN o : p # q => o[p] # o[q]}

RECURSIVE ChainPairs(_, _)
ChainPairs(chain, i) ==
    IF i + 1 > Len(chain) THEN <<>>
    ELSE (IF chain[i].kind = "N" /\ chain[i + 1].kind = "N"
          THEN <<(<<chain[i].id[1], chain[i + 1].id[1]>>)>> ELSE <<>>)
         \o ChainPairs(chain, i + 1)

StmtEdges(s) ==
    CASE s.kind = "Edge" /\ s.ty = "Pair" ->
             IF s.vertices[1].kind = "N" /\ s.vertices[2].kind = "N"
             THEN <<(<<s.vertices[1].id[1], s.vertices[2].id[1]>>)>> ELSE <<>>
      [] s.kind = "Edge" /\ s.ty = "Chain" -> ChainPairs(s.vertices, 1)
      [] OTHER -> <<>>

RECURSIVE CollectEdges(_, _)
CollectEdges(stmts, p) ==
    IF p > Len(stmts) THEN <<>> ELSE StmtEdges(stmts[p]) \o CollectEdges(stmts, p + 1)

\* the edges whose lookup in node_indices yields None
MissingEndpoints(edges, indices) ==
    {e \in 1 .. Len(edges) :
        \/ node_id_to_string(edges[e][1]) \notin DOMAIN indices
        \/ node_id_to_string(edges[e][2]) \notin DOMAIN indices}

EdgeIndices(edges, indices) ==
    [e \in 1 .. Len(edges) |->
        <<indices[node_id_to_string(edges[e][1])], indices[node_id_to_string(edges[e][2])]>>]

----------------------------------------------------------------------------
(* Attribute pass: colour and label of a node *)

Positions(s, ch) == {i \in 1 .. Len(s) : s[i] = ch}
First(I) == CHOOSE i \in I : \A j \in I : i <= j
Last(I) == CHOOSE i \in I : \A j \in I : j <= i

\* str::find and str::rfind: Option of the 0-based index
find(s, ch) == IF Positions(s, ch) = {} THEN None ELSE Some(First(Positions(s, ch)) - 1)
rfind(s, ch) == IF Positions(s, ch) = {} THEN None ELSE Some(Last(Positions(s, ch)) - 1)

\* LabelStart with the quote looked for before the slash
LabelStartQuoteFirst(s) ==
    IF find(s, "\"") # None THEN find(s, "\"")[1] + 1
    ELSE IF rfind(s, "/") # None THEN rfind(s, "/")[1] + 1
    ELSE 0

LabelStart(s) ==
    IF rfind(s, "/") # None THEN rfind(s, "/")[1] + 1
    ELSE IF find(s, "\"") # None THEN find(s, "\"")[1] + 1
    ELSE 0

LabelEnd(s) == IF rfind(s, "\"") # None THEN rfind(s, "\"")[1] ELSE Len(s)

\* s[start..end] panics when start > end or end > len
SlicePanics(s, start, end) == start > end \/ end > Len(s)
Slice(s, start, end) == SubSeq(s, start + 1, end)

\* ShapeStep with the lookup left out: every shape attribute records the colour
ShapeStepAlwaysInsert(st, a1) ==
    [st EXCEPT !.color_map = [v \in DOMAIN st.color_map \cup {a1} |->
                                 IF v = a1 THEN st.color ELSE st.color_map[v]]]

\* the "shape" arm: reuse the colour recorded for a1, or record the current one
ShapeStep(st, a1) ==
    IF a1 \in DOMAIN st.color_map
    THEN [st EXCEPT !.color = st.color_map[a1]]
    ELSE [st EXCEPT !.color_map = (a1 :> st.color) @@ st.color_map]

\* one turn of the loop over node.attributes; st = [color, label, color_map, panicked]
AttributeStep(st, a) ==
    LET a0 == IdText(a.name)
        a1 == IdText(a.value)
        s == a.value.v
    IN  CASE a0 = <<"l", "a", "b", "e", "l">> ->
                 IF SlicePanics(s, LabelStart(s), LabelEnd(s))
                 THEN [st EXCEPT !.panicked = TRUE]
                 ELSE [st EXCEPT !.label = Slice(s, LabelStart(s), LabelEnd(s))]
          [] a0 = <<"s", "h", "a", "p", "e">> -> ShapeStep(st, a1)
          [] OTHER -> st

RECURSIVE AttributeLoop(_, _, _)
AttributeLoop(st, attributes, k) ==
    IF k > Len(attributes) \/ st.panicked THEN st
    ELSE AttributeLoop(AttributeStep(st, attributes[k]), attributes, k + 1)

\* the body of the loop over nodes.values() for one node
NodeAttributes(node, random_color, cmap) ==
    AttributeLoop([color |-> random_color, label |-> IdText(node.id.id),
                   color_map |-> cmap, panicked |-> FALSE],
                  node.attributes, 1)

----------------------------------------------------------------------------
(* The three forces of one inner iteration *)

\* "Move parents upwards and children downwards", for one edge
HierarchyEdge(pts, e) ==
    LET i == e[1]
        j == e[2]
        dz == pts[i][2] - pts[j][2]
    IN  IF dz < float_distance
        THEN LET up == [pts EXCEPT ![i][2] = @ + float_strength]
             IN  [up EXCEPT ![j][2] = @ - float_strength]
        ELSE pts

RECURSIVE HierarchyLoop(_, _, _)
HierarchyLoop(pts, edges, e) ==
    IF e > Len(edges) THEN pts
    ELSE HierarchyLoop(HierarchyEdge(pts, edges[e]), edges, e + 1)

\* ForceDims with an inclusive range, 0..=dims
ForceDimsInclusive(d) == 0 .. d

\* the coordinates the k loops of the repulsion and spring steps run over: 0..dims
ForceDims(d) == Dims(d)

\* MovePair with u computed again, from the moved source, for the target
MovePairRecomputed(pts, i, j, d, factor) ==
    LET sub == [pts EXCEPT ![i] = [k \in Dims(MAX_DIMS) |->
                   IF k \in Dims(d) THEN pts[i][k] - FMul(pts[j][k] - pts[i][k], factor)
                   ELSE pts[i][k]]]
    IN  [sub EXCEPT ![j] = [k \in Dims(MAX_DIMS) |->
            IF k \in Dims(d) THEN sub[j][k] + FMul(sub[j][k] - sub[i][k], factor)
            ELSE sub[j][k]]]

\* points[i][k] -= u; points[j][k] += u, with u = (points[j][k] - points[i][k]) * d
MovePair(pts, i, j, d, factor) ==
    LET u == [k \in Dims(MAX_DIMS) |->
                 IF k \in ForceDims(d) THEN FMul(pts[j][k] - pts[i][k], factor) ELSE 0]
        sub == [pts EXCEPT ![i] = [k \in Dims(MAX_DIMS) |-> pts[i][k] - u[k]]]
    IN  [sub EXCEPT ![j] = [k \in Dims(MAX_DIMS) |-> sub[j][k] + u[k]]]

RepelFactor(length) ==
    LET c == node_repelling_distance - length
    IN  FDiv(FDiv(Min(c, node_repelling_strength), 2) * Unit, Max(length, Epsilon))

\* "Move nodes away from each other", for one pair i < j
RepelPair(pts, i, j, d) ==
    LET length == points_distance(pts, i, j, d)
    IN  IF length < node_repelling_distance
        THEN MovePair(pts, i, j, d, RepelFactor(length))
        ELSE pts

RECURSIVE RepelLoop(_, _, _, _, _)
RepelLoop(pts, n, i, j, d) ==
    IF i >= n THEN pts
    ELSE IF j >= n THEN RepelLoop(pts, n, i + 1, i + 2, d)
    ELSE RepelLoop(RepelPair(pts, i, j, d), n, i, j + 1, d)

\* the divisor of the spring factor: length.max(0.001)
SpringDivisor(length) == Max(length, Epsilon)

SpringFactor(length) ==
    LET c == length - edge_length
    IN  FDiv(FDiv(FMul(edge_strength, c) * (-1), 2) * Unit, SpringDivisor(length))

\* "Move nodes to satisfy edge length", for one edge
SpringEdge(pts, e, d) ==
    MovePair(pts, e[1], e[2], d, SpringFactor(points_distance(pts, e[1], e[2], d)))

\* the points after each edge of the spring loop, in edge order
RECURSIVE SpringLoop(_, _, _, _)
SpringLoop(pts, edges, e, d) ==
    IF e > Len(edges) THEN <<>>
    ELSE LET next == SpringEdge(pts, edges[e], d)
         IN  <<next>> \o SpringLoop(next, edges, e + 1, d)

----------------------------------------------------------------------------
(* Frame emission *)

Clamp01(t) == Max(0, Min(t, Unit))

\* u8::lerp: (self * (1 - t) + other * t).round() as u8
lerp(a, b, t) == Max(0, Min(255, (a * (Unit - t) + b * t + Unit \div 2) \div Unit))

ArrowColor(length) ==
    IF length < edge_length
    THEN LET t == Clamp01(FDiv((edge_length - length) * Unit, COMPRESS_RANGE))
         IN  <<lerp(0, 255, t), lerp(255, 0, t), 0>>
    ELSE LET t == Clamp01(FDiv((length - edge_length) * Unit, STRETCH_RANGE))
         IN  <<lerp(0, 127, t), lerp(255, 0, t), lerp(0, 255, t)>>

Point3D(p) == <<p[0], p[1], p[2]>>

\* EmitOrder that starts at node 1
EmitOrderSkipFirst(n) == [m \in 1 .. n - 1 |-> m]

\* the node indices the emission loop visits, in order
EmitOrder(n) == [m \in 1 .. n |-> m - 1]

NodeMessage(pts, i, cols, labs) ==
    [path |-> <<"nodes/">> \o labs[i + 1], index |-> i, point |-> Point3D(pts[i]),
     color |-> cols[i + 1], label |-> labs[i + 1], arrows |-> <<>>, arrow_colors |-> <<>>]

NodeMessages(pts, n, cols, labs) ==
    [m \in 1 .. Len(EmitOrder(n)) |-> NodeMessage(pts, EmitOrder(n)[m], cols, labs)]

Arrow(pts, e) ==
    [origin |-> Point3D(pts[e[1]]),
     vector |-> <<pts[e[2]][0] - pts[e[1]][0], pts[e[2]][1] - pts[e[1]][1],
                  pts[e[2]][2] - pts[e[1]][2]>>]

\* the edges the arrow loop visits, in order
ArrowEdges(edges) == edges

EdgesMessage(pts, edges, d) ==
    [path |-> <<"edges">>, index |-> -1, point |-> <<>>, color |-> <<>>, label |-> <<>>,
     arrows |-> [e \in 1 .. Len(ArrowEdges(edges)) |-> Arrow(pts, ArrowEdges(edges)[e])],
     arrow_colors |-> [e \in 1 .. Len(ArrowEdges(edges)) |->
        ArrowColor(points_distance(pts, ArrowEdges(edges)[e][1], ArrowEdges(edges)[e][2], d))]]

Frame(pts, n, edges, d, cols, labs) ==
    NodeMessages(pts, n, cols, labs) \o <<EdgesMessage(pts, edges, d)>>

----------------------------------------------------------------------------
(* The dimension schedule: for dims in (3..MAX_DIMS).rev() *)

\* the schedule of an inclusive range, (3..=MAX_DIMS).rev()
FirstDimsInclusive == MAX_DIMS

FirstDims == MAX_DIMS - 1
HasNextDims(d) == d - 1 >= MIN_DIMS
NextDims(d) == d - 1
ScheduleEmpty == MAX_DIMS - 1 < MIN_DIMS

\* gen_range(-1.0..1.0) for coordinate k of point i under a seed; seed 0 puts
\* every point at the origin
Sample(seed, i, k) ==
    IF seed = 0 THEN 0
    ELSE ((seed * 7919 + i * 5779 + k * 2063 + i * k * 977) % (2 * Unit)) - Unit

----------------------------------------------------------------------------
(* Inputs *)

TextA == <<"a">>
TextB == <<"b">>
TextC == <<"c">>
TextGhost == <<"g", "h", "o", "s", "t">>
TextLabel == <<"l", "a", "b", "e", "l">>
TextShape == <<"s", "h", "a", "p", "e">>
TextColor == <<"c", "o", "l", "o", "r">>
TextBox == <<"b", "o", "x">>
TextOval == <<"o", "v", "a", "l">>
\* foo/bar"baz"
TextFooBarBaz == <<"f", "o", "o", "/", "b", "a", "r", "\"", "b", "a", "z", "\"">>
\* "onlyquotes"
TextOnlyQuotes == <<"\"", "o", "n", "l", "y", "q", "u", "o", "t", "e", "s", "\"">>
\* <"x"/>: an HTML label whose last '/' follows its last '"'
TextHtml == <<"<", "\"", "x", "\"", "/", ">">>

Plain(t) == Id("Plain", t)
Name(t) == NodeId(Plain(t), None)
Decl(t, attributes) == NodeStmt(Node(Name(t), attributes))
V(t) == VertexN(Name(t))
LabelAttr(t) == Attribute(Plain(TextLabel), Id("Escaped", t))
ShapeAttr(t) == Attribute(Plain(TextShape), Plain(t))
ColorAttr(t) == Attribute(Plain(TextColor), Plain(t))

\* a ColorRGBA::from_rgb of three gen_range(0..255) draws
Rgb(c) == <<(c * 83) % 255, (c * 151) % 255, (c * 211) % 255>>

\* a pair edge; both nodes of one shape, one with a path label
GraphPair ==
    <<Decl(TextA, <<ShapeAttr(TextBox), LabelAttr(<<"\"", "p", "/", "a", "\"">>)>>),
      Decl(TextB, <<ColorAttr(TextBox), ShapeAttr(TextBox)>>),
      EdgePair(V(TextA), V(TextB))>>

\* a node declared twice, a multi-edge and a self-loop
GraphMultiEdge ==
    <<Decl(TextA, <<>>), Decl(TextB, <<>>), Decl(TextA, <<ShapeAttr(TextOval)>>),
      EdgePair(V(TextA), V(TextB)), EdgePair(V(TextA), V(TextB)),
      EdgePair(V(TextB), V(TextB))>>

\* a chain over three nodes
GraphChain ==
    <<Decl(TextA, <<>>), Decl(TextB, <<>>), Decl(TextC, <<>>),
      EdgeChain(<<V(TextA), V(TextB), V(TextC)>>)>>

\* edges with subgraph vertices are dropped: two nodes, no edge
GraphSubgraphEdges ==
    <<OtherStmt, Decl(TextA, <<>>), Decl(TextB, <<>>),
      EdgePair(V(TextA), VertexS), EdgeChain(<<V(TextA), VertexS, V(TextB)>>)>>

\* an edge to an undeclared node
GraphGhost == <<Decl(TextA, <<>>), EdgePair(V(TextA), V(TextGhost))>>

\* a chain whose last step reaches an undeclared node
GraphGhostChain ==
    <<Decl(TextA, <<>>), Decl(TextB, <<>>),
      EdgeChain(<<V(TextA), V(TextB), V(TextGhost)>>)>>

\* an endpoint with a port: its key is not the declared node's key
GraphPort ==
    <<Decl(TextA, <<>>), Decl(TextB, <<>>),
      EdgePair(VertexN(NodeId(Plain(TextA), Some(Port(None, Some(<<"n">>))))), V(TextB))>>

\* labels whose end index lies before the start index
GraphHtmlLabel ==
    <<Decl(TextA, <<Attribute(Plain(TextLabel), Id("Html", TextHtml))>>),
      Decl(TextB, <<>>), EdgePair(V(TextA), V(TextB))>>

GraphLoneQuote == <<Decl(TextA, <<LabelAttr(<<"a", "\"">>)>>)>>

\* the graphs of the full run
SolverGraphs ==
    {GraphPair, GraphMultiEdge, GraphChain, GraphSubgraphEdges, GraphGhost,
     GraphGhostChain, GraphPort, GraphHtmlLabel, GraphLoneQuote}

SolverStreams ==
    {[colors |-> <<Rgb(1), Rgb(2), Rgb(3)>>, seed |-> s] : s \in 0 .. MaxSeed}

RECURSIVE TextsOfLen(_, _)
TextsOfLen(alphabet, n) ==
    IF n = 0 THEN {<<>>}
    ELSE {<<ch>> \o t : ch \in alphabet, t \in TextsOfLen(alphabet, n - 1)}

LabelAlphabet == {"/", "\"", "a", "b"}

LabelTexts ==
    UNION {TextsOfLen(LabelAlphabet, n) : n \in 0 .. MaxLabelLen}
    \cup {TextFooBarBaz, TextOnlyQuotes, TextHtml}

LabelGraphs == {<<Decl(TextA, <<LabelAttr(t)>>)>> : t \in LabelTexts}

ShapeLists ==
    UNION {[1 .. n -> {ShapeAttr(TextBox), ShapeAttr(TextOval)}] : n \in 0 .. MaxShapeAttrs}

ShapeGraphs ==
    {<<Decl(TextA, la), Decl(TextB, lb), Decl(TextC, lc)>> :
        la \in ShapeLists, lb \in ShapeLists, lc \in ShapeLists}

AttributeGraphs == LabelGraphs \cup ShapeGraphs

AttributeStreams ==
    {[colors |-> cs, seed |-> 0] :
        cs \in {<<Rgb(1), Rgb(2), Rgb(3)>>, <<Rgb(1), Rgb(1), Rgb(2)>>}}

----------------------------------------------------------------------------
(* The program *)

NoHistory ==
    [attempted |-> 0, phases |-> <<>>, phase_start |-> <<>>, phase_frames |-> <<>>,
     frames |-> 0, frames_in_phase |-> 0, steps_since_frame |-> 0, frame_steps |-> 0,
     forces |-> <<>>, spring |-> <<>>]

Start(graphs, streams) ==
    /\ statements \in graphs
    /\ rng \in streams
    /\ pc = "collect_nodes"
    /\ nodes = <<>>
    /\ node_indices = <<>>
    /\ num_points = 0
    /\ edges_indices = <<>>
    /\ color_map = <<>>
    /\ colors = <<>>
    /\ labels = <<>>
    /\ points = <<>>
    /\ dims = 0
    /\ outer = 0
    /\ inner = 0
    /\ outcome = "running"
    /\ sent = <<>>
    /\ hist = NoHistory

Init == Start(SolverGraphs, SolverStreams)

InitAttributes == Start(AttributeGraphs, AttributeStreams)

\* lines 67-80: the node table and the index of each key
CollectNodes ==
    /\ pc = "collect_nodes"
    /\ \E order \in IterationOrders(NodeKeys(statements)) :
        /\ nodes' = [p \in 1 .. Len(order) |->
                        [key |-> order[p], node |-> NodeOfKey(statements, order[p])]]
        /\ node_indices' = [key \in NodeKeys(statements) |->
                               (CHOOSE p \in 1 .. Len(order) : order[p] = key) - 1]
    /\ num_points' = Cardinality(NodeKeys(statements))
    /\ pc' = "collect_edges"
    /\ UNCHANGED <<statements, rng, edges_indices, color_map, colors, labels, points,
                   dims, outer, inner, outcome, sent, hist>>

\* lines 82-112: the edge list; unwrap() panics on an unknown endpoint
BuildEdges ==
    /\ pc = "collect_edges"
    /\ LET edges == CollectEdges(statements, 1)
       IN  IF MissingEndpoints(edges, node_indices) # {}
           THEN /\ pc' = "panicked"
                /\ outcome' = "panic:unwrap"
                /\ UNCHANGED edges_indices
           ELSE /\ pc' = "attributes"
                /\ edges_indices' = EdgeIndices(edges, node_indices)
                /\ UNCHANGED outcome
    /\ UNCHANGED <<statements, rng, nodes, node_indices, num_points, color_map, colors,
                   labels, points, dims, outer, inner, sent, hist>>

\* lines 118-159: one turn of the loop over nodes.values()
AttributeNode ==
    /\ pc = "attributes"
    /\ Len(colors) < num_points
    /\ LET p == Len(colors) + 1
           st == NodeAttributes(nodes[p].node, rng.colors[p], color_map)
       IN  /\ hist' = [hist EXCEPT !.attempted = p]
           /\ IF st.panicked
              THEN /\ pc' = "panicked"
                   /\ outcome' = "panic:slice"
                   /\ UNCHANGED <<color_map, colors, labels>>
              ELSE /\ color_map' = st.color_map
                   /\ colors' = Append(colors, st.color)
                   /\ labels' = Append(labels, st.label)
                   /\ UNCHANGED <<pc, outcome>>
    /\ UNCHANGED <<statements, rng, nodes, node_indices, num_points, edges_indices,
                   points, dims, outer, inner, sent>>

\* lines 162-180: the asserts hold, the points get their random start
InitPoints ==
    /\ pc = "attributes"
    /\ Len(colors) = num_points
    /\ Len(labels) = num_points
    /\ points' = [i \in 0 .. num_points - 1 |->
                    [k \in Dims(MAX_DIMS) |-> Sample(rng.seed, i, k)]]
    /\ IF ScheduleEmpty
       THEN /\ pc' = "done"
            /\ outcome' = "ok"
            /\ UNCHANGED <<dims, hist>>
       ELSE /\ pc' = "hierarchy"
            /\ dims' = FirstDims
            /\ hist' = [hist EXCEPT !.phases = <<FirstDims>>, !.phase_start = points']
            /\ UNCHANGED outcome
    /\ UNCHANGED <<statements, rng, nodes, node_indices, num_points, edges_indices,
                   color_map, colors, labels, outer, inner, sent>>

----------------------------------------------------------------------------
(* The solver: lines 183-264 *)

\* the order of the three force loops inside one inner iteration
FirstForce == "hierarchy"

\* ForceAfter with the spring loop ahead of the repulsion loop
ForceAfterSwapped(force) ==
    CASE force = "hierarchy" -> "spring"
      [] force = "spring" -> "repulsion"
      [] force = "repulsion" -> "end"

ForceAfter(force) ==
    CASE force = "hierarchy" -> "repulsion"
      [] force = "repulsion" -> "spring"
      [] force = "spring" -> "end"

\* for _ in 0..10 (inner): the loop ends after INNER_ITERS turns
InnerLoopEnds(done) == done >= INNER_ITERS
\* for _ in 0..10 (outer)
OuterLoopEnds(done) == done >= OUTER_ITERS

\* the position after a force loop: the next force, or the end of the inner turn
AfterForce(force) ==
    IF ForceAfter(force) # "end" THEN ForceAfter(force)
    ELSE IF InnerLoopEnds(inner + 1) THEN "emit" ELSE FirstForce

HierarchyForce ==
    /\ pc = "hierarchy"
    /\ points' = HierarchyLoop(points, edges_indices, 1)
    /\ pc' = AfterForce("hierarchy")
    /\ hist' = [hist EXCEPT !.forces = Append(IF pc = FirstForce THEN <<>> ELSE @, pc)]
    /\ UNCHANGED <<statements, rng, nodes, node_indices, num_points, edges_indices,
                   color_map, colors, labels, dims, outer, inner, outcome, sent>>

RepulsionForce ==
    /\ pc = "repulsion"
    /\ points' = RepelLoop(points, num_points, 0, 1, dims)
    /\ pc' = AfterForce("repulsion")
    /\ hist' = [hist EXCEPT !.forces = Append(IF pc = FirstForce THEN <<>> ELSE @, pc)]
    /\ UNCHANGED <<statements, rng, nodes, node_indices, num_points, edges_indices,
                   color_map, colors, labels, dims, outer, inner, outcome, sent>>

\* what the spring loop did at each edge: the points before and after, the divisor
SpringRecord(before, after, e, d) ==
    [edge |-> e, before |-> before, after |-> after,
     divisor |-> SpringDivisor(points_distance(before, e[1], e[2], d))]

SpringForce ==
    /\ pc = "spring"
    /\ LET trace == SpringLoop(points, edges_indices, 1, dims)
       IN  /\ points' = IF trace = <<>> THEN points ELSE trace[Len(trace)]
           /\ hist' = [hist EXCEPT
                 !.forces = Append(IF pc = FirstForce THEN <<>> ELSE @, pc),
                 !.spring = [e \in 1 .. Len(trace) |->
                     SpringRecord(IF e = 1 THEN points ELSE trace[e - 1], trace[e],
                                  edges_indices[e], dims)],
                 !.steps_since_frame = IF ForceAfter(pc) = "end" THEN @ + 1 ELSE @]
    /\ pc' = AfterForce("spring")
    /\ inner' = IF pc' = "emit" THEN 0 ELSE inner + 1
    /\ UNCHANGED <<statements, rng, nodes, node_indices, num_points, edges_indices,
                   color_map, colors, labels, dims, outer, outcome, sent>>

\* lines 225-262: every message of the frame is sent; then the outer loop, and at
\* its end the dimension loop, take their next turn
EmitFrame ==
    /\ pc = "emit"
    /\ sent' = Frame(points, num_points, edges_indices, dims, colors, labels)
    /\ IF ~OuterLoopEnds(outer + 1)
       THEN /\ outer' = outer + 1
            /\ pc' = FirstForce
            /\ hist' = [hist EXCEPT !.frames = @ + 1, !.frames_in_phase = @ + 1,
                                    !.frame_steps = hist.steps_since_frame,
                                    !.steps_since_frame = 0, !.forces = <<>>]
            /\ UNCHANGED <<dims, outcome>>
       ELSE IF HasNextDims(dims)
       THEN /\ outer' = 0
            /\ dims' = NextDims(dims)
            /\ pc' = FirstForce
            /\ hist' = [hist EXCEPT !.frames = @ + 1, !.frames_in_phase = 0,
                                    !.frame_steps = hist.steps_since_frame,
                                    !.steps_since_frame = 0, !.forces = <<>>,
                                    !.phase_frames = Append(@, hist.frames_in_phase + 1),
                                    !.phases = Append(@, NextDims(dims)),
                                    !.phase_start =
                                        [i \in DOMAIN points |-> [k \in Dims(MAX_DIMS) |->
                                            IF k >= dims THEN hist.phase_start[i][k]
                                            ELSE points[i][k]]]]
            /\ UNCHANGED outcome
       ELSE /\ outer' = 0
            /\ pc' = "done"
            /\ outcome' = "ok"
            /\ hist' = [hist EXCEPT !.frames = @ + 1, !.frames_in_phase = 0,
                                    !.frame_steps = hist.steps_since_frame,
                                    !.steps_since_frame = 0, !.forces = <<>>,
                                    !.phase_frames = Append(@, hist.frames_in_phase + 1)]
            /\ UNCHANGED dims
    /\ UNCHANGED <<statements, rng, nodes, node_indices, num_points, edges_indices,
                   color_map, colors, labels, points, inner>>

\* a send (or with_component) returns Err: `?` ends main after m messages
SinkFails ==
    /\ pc = "emit"
    /\ hist.frames < MaxSinkFail
    /\ \E m \in 0 .. num_points :
        sent' = SubSeq(Frame(points, num_points, edges_indices, dims, colors, labels), 1, m)
    /\ pc' = "failed"
    /\ outcome' = "err:sink"
    /\ UNCHANGED <<statements, rng, nodes, node_indices, num_points, edges_indices,
                   color_map, colors, labels, points, dims, outer, inner, hist>>

Next ==
    \/ CollectNodes
    \/ BuildEdges
    \/ AttributeNode
    \/ InitPoints
    \/ HierarchyForce
    \/ RepulsionForce
    \/ SpringForce
    \/ EmitFrame
    \/ SinkFails

Spec == Init /\ [][Next]_vars

\* the program up to the end of the attribute pass (line 165)
NextAttributes ==
    \/ CollectNodes
    \/ BuildEdges
    \/ AttributeNode

AttributeSpec == InitAttributes /\ [][NextAttributes]_vars

----------------------------------------------------------------------------
(* Vocabulary of the properties *)

SolverRunning == pc \in {"hierarchy", "repulsion", "spring", "emit"}
SolverStarted == SolverRunning \/ pc \in {"done", "failed"}

\* the edge list names an identity that no node statement declares
DanglingEdge ==
    \E e \in 1 .. Len(CollectEdges(statements, 1)) : \E side \in 1 .. 2 :
        node_id_to_string(CollectEdges(statements, 1)[e][side]) \notin NodeKeys(statements)

\* the values of the attributes of a node that are named `name`, in order
RECURSIVE AttributeValues(_, _, _)
AttributeValues(attributes, name, k) ==
    IF k > Len(attributes) THEN <<>>
    ELSE (IF attributes[k].name.v = name THEN <<attributes[k].value.v>> ELSE <<>>)
         \o AttributeValues(attributes, name, k + 1)

ShapeValues(p) == AttributeValues(nodes[p].node.attributes, TextShape, 1)
LabelValues(p) == AttributeValues(nodes[p].node.attributes, TextLabel, 1)
Range(seq) == {seq[x] : x \in 1 .. Len(seq)}
LastOf(seq) == seq[Len(seq)]

\* the end index of the label text lies before its start index
Malformed(s) == LabelEnd(s) < LabelStart(s)

Identity(p) == nodes[p].node.id.id.v

\* the last message of `sent` is the edges message: a whole frame went out
FrameComplete == sent # <<>> /\ LastOf(sent).path = <<"edges">>
\* no force has moved the points since the frame in `sent`
JustEmitted == FrameComplete /\ hist.forces = <<>> /\ hist.steps_since_frame = 0

ForceOrder == <<"hierarchy", "repulsion", "spring">>

----------------------------------------------------------------------------
(* C1: a graph with an edge to an undeclared identity ends, once the edge    *)
(* list is resolved, with the reported error MalformedGraphError and not     *)
(* with a panic, and no frame is ever sent.                                  *)
C1_DanglingEdgeReported ==
    (DanglingEdge /\ pc \notin {"collect_nodes", "collect_edges"}) =>
        /\ outcome = "err:MalformedGraphError"
        /\ sent = <<>>
        /\ hist.frames = 0

(* C2: a node whose label text has its end index before its start index    *)
(* does not stop the run: once the attribute pass has reached it, the run   *)
(* has not panicked and the node's label is its identity string.            *)
C2_MalformedLabelFallsBack ==
    \A p \in 1 .. hist.attempted :
        (\E s \in Range(LabelValues(p)) : Malformed(s)) =>
            /\ outcome # "panic:slice"
            /\ p <= Len(labels)
            /\ labels[p] = Identity(p)

(* C3, as amended: a processed node whose only attribute is a label gets,   *)
(* for the text foo/bar"baz", the label bar"baz; for a text with no '/' and *)
(* no '"', the text itself; for "onlyquotes", the label onlyquotes.         *)
LabelCases(p, of_foo_bar_baz) ==
    LET s == LabelValues(p)[1]
    IN  /\ s = TextFooBarBaz => labels[p] = of_foo_bar_baz
        /\ (Positions(s, "/") = {} /\ Positions(s, "\"") = {}) => labels[p] = s
        /\ s = TextOnlyQuotes =>
               labels[p] = <<"o", "n", "l", "y", "q", "u", "o", "t", "e", "s">>

SingleLabelNodes ==
    {p \in 1 .. Len(labels) : Len(nodes[p].node.attributes) = 1 /\ Len(LabelValues(p)) = 1}

C3_LabelExtraction ==
    \A p \in SingleLabelNodes :
        LabelCases(p, <<"b", "a", "r", "\"", "b", "a", "z">>)

\* C3 as stated: foo/bar"baz" gives baz
C3_Original == \A p \in SingleLabelNodes : LabelCases(p, <<"b", "a", "z">>)

C3_Witness ==
    \E p \in SingleLabelNodes :
        /\ LabelValues(p)[1] = TextFooBarBaz
        /\ labels[p] = <<"b", "a", "r", "\"", "b", "a", "z">>

(* C4, as amended: every processed node that carries a shape attribute has  *)
(* the colour recorded for the value of its last shape attribute, a         *)
(* recorded colour never changes, and so any two processed nodes whose last *)
(* shape values agree have the same colour.                                 *)
ShapedNodes == {p \in 1 .. Len(colors) : ShapeValues(p) # <<>>}

LastShapeDecides ==
    /\ \A p \in ShapedNodes :
        /\ LastOf(ShapeValues(p)) \in DOMAIN color_map
        /\ colors[p] = color_map[LastOf(ShapeValues(p))]
    /\ \A p, q \in ShapedNodes :
        LastOf(ShapeValues(p)) = LastOf(ShapeValues(q)) => colors[p] = colors[q]

RecordedColorsKept ==
    \A v \in DOMAIN color_map : v \in DOMAIN color_map' /\ color_map'[v] = color_map[v]

C4_ShapeColor == []LastShapeDecides /\ [][RecordedColorsKept]_vars

\* C4 as stated: every shape value of a node that an earlier node carried
\* decides the node's colour, and nodes sharing a shape value share the colour
C4_Original ==
    /\ \A p \in ShapedNodes : \A v \in Range(ShapeValues(p)) :
        (\E q \in 1 .. p - 1 : v \in Range(ShapeValues(q))) => colors[p] = color_map[v]
    /\ \A p, q \in ShapedNodes :
        Range(ShapeValues(p)) \cap Range(ShapeValues(q)) # {} => colors[p] = colors[q]

\* a later node took over the colour of an earlier one of its shape, although
\* the generator gave it another
C4_Witness ==
    \E p, q \in ShapedNodes :
        /\ p < q
        /\ Len(ShapeValues(q)) = 1
        /\ ShapeValues(q)[1] \in Range(ShapeValues(p))
        /\ rng.colors[p] # rng.colors[q]
        /\ colors[q] = colors[p]
        /\ Len(colors) = num_points

(* C5: every whole frame holds one node record per node index, in index     *)
(* order, and one arrow with one colour per entry of the edge list, in edge  *)
(* order; right after the emission the records are the points' first three   *)
(* coordinates and the arrows run from source to target.                     *)
C5_FrameShape ==
    FrameComplete =>
        /\ Len(sent) = num_points + 1
        /\ \A m \in 1 .. Len(sent) - 1 :
            /\ sent[m].index = m - 1
            /\ sent[m].color = colors[m]
            /\ sent[m].label = labels[m]
            /\ JustEmitted => sent[m].point = <<points[m - 1][0], points[m - 1][1], points[m - 1][2]>>
        /\ Len(LastOf(sent).arrows) = Len(edges_indices)
        /\ Len(LastOf(sent).arrow_colors) = Len(edges_indices)
        /\ JustEmitted => \A e \in 1 .. Len(edges_indices) :
            LET i == edges_indices[e][1]
                j == edges_indices[e][2]
                arrow == LastOf(sent).arrows[e]
            IN  /\ arrow.origin = <<points[i][0], points[i][1], points[i][2]>>
                /\ \A k \in 1 .. 3 : arrow.origin[k] + arrow.vector[k] = points[j][k - 1]

\* a whole frame of a graph with three nodes, and one of a graph with a multi-edge
C5_Witness ==
    /\ JustEmitted
    /\ \/ num_points = 3 /\ Len(edges_indices) = 2
       \/ \E e, f \in 1 .. Len(edges_indices) : e # f /\ edges_indices[e] = edges_indices[f]
    /\ hist.frames > 1

(* C6: once the solver runs, dims starts at MAX_DIMS - 1, the phases entered *)
(* are MAX_DIMS - 1, MAX_DIMS - 2, ... in this order, dims is the last of    *)
(* them and lies in 3 .. MAX_DIMS - 1, the run ends only after the phase of  *)
(* 3 dimensions, and no step of the solver increases dims.                   *)
DimsInSchedule ==
    SolverStarted =>
        /\ dims \in 3 .. MAX_DIMS - 1
        /\ hist.phases # <<>>
        /\ \A ph \in 1 .. Len(hist.phases) : hist.phases[ph] = MAX_DIMS - ph
        /\ dims = LastOf(hist.phases)
        /\ pc = "done" => dims = 3

DimsNeverGrows == SolverRunning => dims' <= dims

C6_DimsSchedule == []DimsInSchedule /\ [][DimsNeverGrows]_vars

C6_Witness == pc = "done" /\ dims = 3 /\ hist.phases = <<9, 8, 7, 6, 5, 4, 3>>

(* C7: a run whose edge list resolved and whose sink has not failed is     *)
(* either at Done or has a step to take, so that it stops nowhere but at     *)
(* Done; at Done it has no step left; no phase is entered twice.             *)
C7_ReachesDone ==
    /\ (pc \notin {"collect_nodes", "collect_edges"} /\ outcome \notin {"panic:unwrap", "err:sink"})
           => (pc = "done" \/ ENABLED Next)
    /\ pc = "done" => ~ENABLED Next
    /\ \A ph, qh \in 1 .. Len(hist.phases) : ph # qh => hist.phases[ph] # hist.phases[qh]

(* C8: at every edge of every spring loop the divisor is not zero; for an    *)
(* edge between two nodes every coordinate of the source moves by the exact  *)
(* negation of the move of the target's; a self-loop leaves its node where   *)
(* it was.                                                                   *)
C8_SpringAntisymmetric ==
    \A r \in Range(hist.spring) :
        LET i == r.edge[1]
            j == r.edge[2]
        IN  /\ r.divisor # 0
            /\ i # j => \A k \in Dims(MAX_DIMS) :
                   r.after[i][k] - r.before[i][k] = -(r.after[j][k] - r.before[j][k])
            /\ i = j => r.after[i] = r.before[i]
            /\ \A n \in DOMAIN r.before : n \notin {i, j} => r.after[n] = r.before[n]

\* a spring loop that met a self-loop and moved the ends of another edge
C8_Witness ==
    /\ \E r \in Range(hist.spring) : r.edge[1] = r.edge[2] /\ r.divisor = Epsilon
    /\ \E r \in Range(hist.spring) :
        r.edge[1] # r.edge[2] /\ r.after[r.edge[1]][0] # r.before[r.edge[1]][0]

(* C9: in the phase of d dimensions every coordinate of index d or more, of  *)
(* every node, has the value it had when the first phase that leaves it out  *)
(* began, and no step of the solver changes it.                              *)
FrozenKept ==
    SolverStarted =>
        \A i \in DOMAIN points : \A k \in dims .. MAX_DIMS - 1 :
            points[i][k] = hist.phase_start[i][k]

FrozenUntouched ==
    SolverRunning =>
        \A i \in DOMAIN points : \A k \in dims .. MAX_DIMS - 1 : points'[i][k] = points[i][k]

C9_InactiveFrozen == []FrozenKept /\ [][FrozenUntouched]_vars

\* a later phase in which the forces have moved an active coordinate of a node,
\* while a coordinate of it that an earlier phase moved is now left out
C9_Witness ==
    /\ SolverRunning
    /\ dims < MAX_DIMS - 1
    /\ hist.forces = ForceOrder
    /\ \E i \in DOMAIN points : \E k \in Dims(dims) : \E f \in dims .. MAX_DIMS - 2 :
        /\ points[i][k] # hist.phase_start[i][k]
        /\ points[i][f] # Sample(rng.seed, i, f)

(* C10: a frame goes out when, and only when, INNER_ITERS inner iterations   *)
(* have run since the last one (or the start); every finished phase sent     *)
(* OUTER_ITERS frames; inside an inner iteration the forces come in the      *)
(* order hierarchy, repulsion, spring.                                       *)
C10_Schedule ==
    SolverStarted =>
        /\ hist.steps_since_frame \in 0 .. INNER_ITERS
        /\ (hist.steps_since_frame = INNER_ITERS) = (pc \in {"emit", "failed"})
        /\ hist.frames > 0 => hist.frame_steps = INNER_ITERS
        /\ hist.frames_in_phase \in 0 .. OUTER_ITERS - 1
        /\ \A ph \in 1 .. Len(hist.phase_frames) : hist.phase_frames[ph] = OUTER_ITERS
        /\ hist.frames = OUTER_ITERS * Len(hist.phase_frames) + hist.frames_in_phase
        /\ Len(hist.forces) <= 3
        /\ \A f \in 1 .. Len(hist.forces) : hist.forces[f] = ForceOrder[f]
        /\ pc = "repulsion" => hist.forces = <<"hierarchy">>
        /\ pc = "spring" => hist.forces = <<"hierarchy", "repulsion">>
        /\ pc \in {"hierarchy", "emit", "failed"} => hist.forces \in {<<>>, ForceOrder}
        /\ pc = "done" => Len(hist.phase_frames) = Len(hist.phases)

C10_Witness ==
    /\ pc = "done"
    /\ hist.frames = 70
    /\ hist.phase_frames = <<10, 10, 10, 10, 10, 10, 10>>

====
